---------------------------- MODULE Spec2Model ----------------------------
(***************************************************************************)
(* A model of src/discord_rpc_client.py: the DiscordRPCClient session      *)
(* (connect, listen, handle_message, send_command, send_activity_update,   *)
(* close) on top of a black-box WebSocket transport and the json module.   *)
(***************************************************************************)
EXTENDS Integers, Sequences, FiniteSets, TLC

(***************************************************************************)
(* Bounds of the model.                                                    *)
(***************************************************************************)
\* frames the service sends on one connection
MaxFrames == 3
\* connections the transport opens during one run
MaxConn == 2

(***************************************************************************)
(* Python values.  Every value is a record of one shape: t is the type,    *)
(* s the text of a str, n the number of an int, kv the items of a dict     *)
(* (<<key, value>> pairs in insertion order) or of a list (<<"", value>>). *)
(***************************************************************************)
None == [t |-> "null", s |-> "", n |-> 0, kv |-> <<>>]

Str(x) == [t |-> "str", s |-> x, n |-> 0, kv |-> <<>>]

Num(x) == [t |-> "int", s |-> "", n |-> x, kv |-> <<>>]

Dict(pairs) == [t |-> "dict", s |-> "", n |-> 0, kv |-> pairs]

List(items) == [t |-> "list", s |-> "", n |-> 0,
                kv |-> [i \in 1..Len(items) |-> <<"", items[i]>>]]

\* k in d, for a dict d
HasKey(d, k) == \E i \in 1..Len(d.kv) : d.kv[i][1] = k

\* the value stored under k in the dict d (k is a key of d)
Lookup(d, k) == d.kv[CHOOSE i \in 1..Len(d.kv) : d.kv[i][1] = k][2]

\* d[k] = v on a dict: an existing key keeps its place, a new key is appended
DictSet(d, k, v) ==
    IF HasKey(d, k)
    THEN Dict([i \in 1..Len(d.kv) |-> IF d.kv[i][1] = k THEN <<k, v>> ELSE d.kv[i]])
    ELSE Dict(Append(d.kv, <<k, v>>))

\* d.get(k): None when the key is missing; AttributeError when d has no get
DictGet(d, k) ==
    IF d.t # "dict" THEN [exc |-> "AttributeError", val |-> None]
    ELSE IF HasKey(d, k) THEN [exc |-> "", val |-> Lookup(d, k)]
    ELSE [exc |-> "", val |-> None]

\* d[k] with a str key k: KeyError on a dict without the key, TypeError on
\* a value that is not subscriptable by a str (None, int, list, str)
Subscript(d, k) ==
    IF d.t # "dict" THEN [exc |-> "TypeError", val |-> None]
    ELSE IF HasKey(d, k) THEN [exc |-> "", val |-> Lookup(d, k)]
    ELSE [exc |-> "KeyError", val |-> None]

(***************************************************************************)
(* JSON text, as the sequence of its tokens.                               *)
(***************************************************************************)
Tok(k) == [tk |-> k, s |-> "", n |-> 0]

TokStr(x) == [tk |-> "str", s |-> x, n |-> 0]

TokInt(x) == [tk |-> "int", s |-> "", n |-> x]

\* a bare word that is no JSON literal, such as  not  or  json
TokWord(x) == [tk |-> "word", s |-> x, n |-> 0]

RECURSIVE Dumps(_)
RECURSIVE DumpsItems(_, _, _)
\* the items kv[i..] of a dict (isDict) or of a list, separated by commas
DumpsItems(kv, i, isDict) ==
    IF i > Len(kv) THEN <<>>
    ELSE (IF i > 1 THEN <<Tok(",")>> ELSE <<>>)
         \o (IF isDict THEN <<TokStr(kv[i][1]), Tok(":")>> ELSE <<>>)
         \o Dumps(kv[i][2])
         \o DumpsItems(kv, i + 1, isDict)

\* json.dumps(v)
Dumps(v) ==
    CASE v.t = "str"  -> <<TokStr(v.s)>>
      [] v.t = "int"  -> <<TokInt(v.n)>>
      [] v.t = "null" -> <<Tok("null")>>
      [] v.t = "dict" -> <<Tok("{")>> \o DumpsItems(v.kv, 1, TRUE) \o <<Tok("}")>>
      [] v.t = "list" -> <<Tok("[")>> \o DumpsItems(v.kv, 1, FALSE) \o <<Tok("]")>>

\* the result of a failed parse
NoParse == [ok |-> FALSE, val |-> None, rest |-> <<>>]

RECURSIVE ParseValue(_)
RECURSIVE ParseMembers(_, _)
RECURSIVE ParseElements(_, _)
\* after  {  or a comma of an object: "key" : value, then  ,  or  }
ParseMembers(toks, acc) ==
    IF Len(toks) < 2 \/ toks[1].tk # "str" \/ toks[2].tk # ":" THEN NoParse
    ELSE LET r == ParseValue(SubSeq(toks, 3, Len(toks))) IN
         IF ~r.ok \/ r.rest = <<>> THEN NoParse
         ELSE LET d == DictSet(acc, toks[1].s, r.val) IN
              CASE r.rest[1].tk = "}" -> [ok |-> TRUE, val |-> d, rest |-> Tail(r.rest)]
                [] r.rest[1].tk = "," -> ParseMembers(Tail(r.rest), d)
                [] OTHER -> NoParse

\* after  [  or a comma of an array: value, then  ,  or  ]
ParseElements(toks, acc) ==
    LET r == ParseValue(toks) IN
    IF ~r.ok \/ r.rest = <<>> THEN NoParse
    ELSE LET l == Append(acc, r.val) IN
         CASE r.rest[1].tk = "]" -> [ok |-> TRUE, val |-> List(l), rest |-> Tail(r.rest)]
           [] r.rest[1].tk = "," -> ParseElements(Tail(r.rest), l)
           [] OTHER -> NoParse

\* one JSON value at the head of toks
ParseValue(toks) ==
    IF toks = <<>> THEN NoParse
    ELSE LET h == toks[1]
             tl == Tail(toks) IN
         CASE h.tk = "str"  -> [ok |-> TRUE, val |-> Str(h.s), rest |-> tl]
           [] h.tk = "int"  -> [ok |-> TRUE, val |-> Num(h.n), rest |-> tl]
           [] h.tk = "null" -> [ok |-> TRUE, val |-> None, rest |-> tl]
           [] h.tk = "{" ->
                IF tl # <<>> /\ tl[1].tk = "}"
                THEN [ok |-> TRUE, val |-> Dict(<<>>), rest |-> Tail(tl)]
                ELSE ParseMembers(tl, Dict(<<>>))
           [] h.tk = "[" ->
                IF tl # <<>> /\ tl[1].tk = "]"
                THEN [ok |-> TRUE, val |-> List(<<>>), rest |-> Tail(tl)]
                ELSE ParseElements(tl, <<>>)
           [] OTHER -> NoParse

\* json.loads(text): exc is "JSONDecodeError" when text is no JSON document
\* (no value at its head, or extra data after the value)
Loads(text) ==
    LET r == ParseValue(text) IN
    IF r.ok /\ r.rest = <<>> THEN [exc |-> "", val |-> r.val]
    ELSE [exc |-> "JSONDecodeError", val |-> None]

(***************************************************************************)
(* Log lines: the level and the fixed text of the logger call.             *)
(***************************************************************************)
Info(msg) == <<"INFO", msg>>

Error(msg) == <<"ERROR", msg>>

(***************************************************************************)
(* handle_message(data): the branch taken, the exception it raises ("" for *)
(* none) and the lines it logs before returning or raising.                *)
(***************************************************************************)
\* the READY branch: data['data']['user']['username'], data['data']['config']
handle_ready(data) ==
    LET d == Subscript(data, "data")
        u == IF d.exc = "" THEN Subscript(d.val, "user") ELSE d
        n == IF u.exc = "" THEN Subscript(u.val, "username") ELSE u
        c == IF n.exc = "" THEN Subscript(d.val, "config") ELSE n
    IN [branch |-> "READY", exc |-> c.exc,
        logs |-> <<Info("Discord RPC is ready!")>>
                 \o (IF n.exc = "" THEN <<Info("User: ")>> ELSE <<>>)
                 \o (IF c.exc = "" THEN <<Info("Config: ")>> ELSE <<>>)]

\* the DISPATCH branch: json.dumps(data['data'], indent=2)
handle_dispatch(data) ==
    LET d == Subscript(data, "data")
    IN [branch |-> "DISPATCH", exc |-> d.exc,
        logs |-> <<Info("Dispatch event: ")>>
                 \o (IF d.exc = "" THEN <<Info("Data: ")>> ELSE <<>>)]

\* handle_message with the DISPATCH test ahead of the READY test
handle_message_cmd_first(data) ==
    LET cmd == DictGet(data, "cmd")
        evt == DictGet(data, "evt")
    IN IF cmd.exc # "" THEN [branch |-> "", exc |-> cmd.exc, logs |-> <<>>]
       ELSE IF cmd.val = Str("DISPATCH") THEN handle_dispatch(data)
       ELSE IF evt.val = Str("READY") THEN handle_ready(data)
       ELSE [branch |-> "unknown", exc |-> "",
             logs |-> <<Info("Unknown message type - CMD: , EVT: ")>>]

\* handle_message with only the READY test: every other envelope is taken
\* for a DISPATCH
handle_message_no_unknown(data) ==
    LET cmd == DictGet(data, "cmd")
        evt == DictGet(data, "evt")
    IN IF cmd.exc # "" THEN [branch |-> "", exc |-> cmd.exc, logs |-> <<>>]
       ELSE IF evt.val = Str("READY") THEN handle_ready(data)
       ELSE handle_dispatch(data)

handle_message(data) ==
    LET cmd == DictGet(data, "cmd")
        evt == DictGet(data, "evt")
    IN IF cmd.exc # "" THEN [branch |-> "", exc |-> cmd.exc, logs |-> <<>>]
       ELSE IF evt.val = Str("READY") THEN handle_ready(data)
       ELSE IF cmd.val = Str("DISPATCH") THEN handle_dispatch(data)
       ELSE [branch |-> "unknown", exc |-> "",
             logs |-> <<Info("Unknown message type - CMD: , EVT: ")>>]

(***************************************************************************)
(* The inputs of the model: text frames the service sends, commands and    *)
(* activities the caller passes.                                           *)
(***************************************************************************)
\* not json
NotJson == <<TokWord("not"), TokWord("json")>>

\* {"evt":"READY","data":{"user":{"username":"alice"},"config":{}}}
ReadyAlice ==
    Dumps(Dict(<< <<"evt", Str("READY")>>,
                  <<"data", Dict(<< <<"user", Dict(<< <<"username", Str("alice")>> >>)>>,
                                    <<"config", Dict(<<>>)>> >>)>> >>))

\* {"evt":"READY"}
ReadyBare == Dumps(Dict(<< <<"evt", Str("READY")>> >>))

\* {"cmd":"DISPATCH","evt":"X","data":{}}
DispatchX ==
    Dumps(Dict(<< <<"cmd", Str("DISPATCH")>>, <<"evt", Str("X")>>,
                  <<"data", Dict(<<>>)>> >>))

\* []
EmptyArray == <<Tok("["), Tok("]")>>

\* {"nonce":"activity-update"}
Nonce == Dumps(Dict(<< <<"nonce", Str("activity-update")>> >>))

\* the frames the service sends in Spec
Frames == {NotJson, ReadyAlice, ReadyBare, DispatchX, Nonce}

\* the mark of a field an envelope does not have
Absent == [t |-> "absent", s |-> "", n |-> 0, kv |-> <<>>]

\* a member of an envelope: no pair when the field is absent
Field(k, v) == IF v = Absent THEN <<>> ELSE << <<k, v>> >>

\* the data of a READY envelope
UserData ==
    Dict(<< <<"user", Dict(<< <<"username", Str("alice")>> >>)>>,
            <<"config", Dict(<<>>)>> >>)

\* envelopes of every mix of cmd, evt and data
Envelopes ==
    { Dict(Field("cmd", c) \o Field("evt", e) \o Field("data", d)) :
        c \in {Absent, None, Str("DISPATCH"), Str("GET_GUILDS"), Str("READY")},
        e \in {Absent, None, Str("READY"), Str("X"), Str("DISPATCH")},
        d \in {Absent, None, Dict(<<>>), UserData} }

\* the frames the service sends in SpecClassify: the envelopes, JSON values
\* that are no object, and text that is no JSON
ManyFrames ==
    { Dumps(e) : e \in Envelopes }
    \cup { EmptyArray, <<TokStr("READY")>>, <<TokInt(1)>>, <<Tok("null")>> }
    \cup { NotJson, <<Tok("{"), TokStr("evt"), Tok(":")>>, <<>>,
           Dumps(Dict(<< <<"evt", Str("READY")>> >>)) \o <<Tok("}")>> }

\* {"cmd": "GET_GUILDS"}
GetGuilds == Dict(<< <<"cmd", Str("GET_GUILDS")>> >>)

\* {"cmd": "GET_CHANNELS", "args": {"guild_id": None}}
GetChannels ==
    Dict(<< <<"cmd", Str("GET_CHANNELS")>>,
            <<"args", Dict(<< <<"guild_id", None>> >>)>> >>)

Commands == {GetGuilds, GetChannels}

\* {"details": "Testing"}
ActivityTesting == Dict(<< <<"details", Str("Testing")>> >>)

\* the activity of test_commands, its assets cut to one entry
ActivityDemo ==
    Dict(<< <<"details", Str("Testing Discord RPC")>>,
            <<"state", Str("Via WebSocket")>>,
            <<"assets", Dict(<< <<"large_image", Str("large_image_key")>> >>)>> >>)

Activities == {ActivityTesting, ActivityDemo}

(***************************************************************************)
(* The state.                                                              *)
(***************************************************************************)
VARIABLES
    websocket,  \* self.websocket: 0 is None, c > 0 the connection conns[c]
    conns,      \* the transport: the state of each connection it has opened
    inbox,      \* the frames the connection websocket holds, not yet delivered
    nsent,      \* how many frames the service has sent on that connection
    pc,         \* "idle", or "listen" while listen() awaits the next frame
    call,       \* the call in progress, or else the last one that returned
    routine     \* the demonstration routine running (main, test_commands)

vars == <<websocket, conns, inbox, nsent, pc, call, routine>>

\* a demonstration routine as it starts; name is "" when none is running
NewRoutine(name) ==
    [name |-> name,        \* "main" or "test_commands"
     at |-> "connect",     \* the statement it is at; "done" once it has ended
     connected |-> FALSE,  \* its connect() returned True
     ready |-> FALSE,      \* its own loop has seen a READY frame
     direct |-> 0,         \* frames it took from client.websocket itself
     timedout |-> FALSE,   \* its listen() was cancelled
     closes |-> 0]         \* its calls of close()

\* a call as it starts
NewCall(op) ==
    [op |-> op,            \* the method called
     seq |-> 1 - call.seq, \* the parity of the number of calls made
     before |-> websocket, \* self.websocket as the call starts
     arg |-> None,         \* its argument, of send_activity_update
     ret |-> "pending",    \* "True", "False", "None", or "raise"
     tio |-> <<>>,         \* the transport primitives the call invokes
     tx |-> <<>>,          \* the frames it hands to the transport
     out |-> <<>>,         \* the frames the transport accepted from it
     logs |-> <<>>,        \* the lines it logs
     recvd |-> <<>>,       \* the frames it took from the transport
     events |-> <<>>,      \* listen: frames taken and handle_message calls
     unread |-> <<>>]      \* listen: the frames left undelivered as it returns

Init ==
    /\ websocket = 0
    /\ conns = <<>>
    /\ inbox = <<>>
    /\ nsent = 0
    /\ pc = "idle"
    /\ call = [op |-> "__init__", seq |-> 0, before |-> 0, arg |-> None,
               ret |-> "None", tio |-> <<>>, tx |-> <<>>, out |-> <<>>,
               logs |-> <<>>, recvd |-> <<>>, events |-> <<>>, unread |-> <<>>]
    /\ routine = NewRoutine("")

\* not self.websocket
NotConnected(ws) == ws = 0

\* the call c returns ret
Return(c, ret) == [c EXCEPT !.ret = ret]

\* the call c logs line
Log(c, line) == [c EXCEPT !.logs = Append(@, line)]

\* the call c invokes the transport primitive io
Transport(c, io) == [c EXCEPT !.tio = Append(@, io)]

\* the connection c of the transport is closed, by either side.  A closed
\* connection stays closed, delivers no frame and accepts none; closing it
\* again does nothing and does not fail.
Closed(c) == [conns EXCEPT ![c] = "closed"]

\* not_connected without its log line
not_connected_silent(c) == Return(c, "None")

\* a call of listen() or send_command() without a connection
not_connected(c) ==
    Return(Log(c, Error("Not connected. Call connect() first.")), "None")

(***************************************************************************)
(* connect()                                                               *)
(***************************************************************************)
\* websockets.connect(self.url) returned
connect_ok(c) == Return(Log(c, Info("Connected successfully!")), "True")

\* websockets.connect(self.url) raised
connect_failed(c) == Return(Log(c, Error("Failed to connect: ")), "False")

\* connect with the handle stored before the connection is made
connect_stores_early ==
    /\ pc = "idle"
    /\ LET c == Transport(Log(NewCall("connect"), Info("Connecting to ")), "connect")
       IN /\ Len(conns) < MaxConn
          /\ websocket' = Len(conns) + 1
          /\ inbox' = <<>>
          /\ nsent' = 0
          /\ \E ok \in BOOLEAN :
               IF ok
               THEN /\ conns' = Append(conns, "open")
                    /\ call' = connect_ok(c)
               ELSE /\ conns' = Append(conns, "closed")
                    /\ call' = connect_failed(c)
    /\ pc' = "idle"

connect ==
    /\ pc = "idle"
    /\ LET c == Transport(Log(NewCall("connect"), Info("Connecting to ")), "connect")
       IN \E ok \in {b \in BOOLEAN : b => Len(conns) < MaxConn} :
            IF ok
            THEN /\ conns' = Append(conns, "open")
                 /\ websocket' = Len(conns) + 1
                 /\ inbox' = <<>>
                 /\ nsent' = 0
                 /\ call' = connect_ok(c)
            ELSE /\ UNCHANGED <<websocket, conns, inbox, nsent>>
                 /\ call' = connect_failed(c)
    /\ pc' = "idle"

(***************************************************************************)
(* listen()                                                                *)
(***************************************************************************)
\* the call: the check of self.websocket, then into the async for
listen ==
    /\ pc = "idle"
    /\ IF NotConnected(websocket)
       THEN /\ call' = not_connected(NewCall("listen"))
            /\ pc' = "idle"
       ELSE /\ call' = NewCall("listen")
            /\ pc' = "listen"
    /\ UNCHANGED <<websocket, conns, inbox, nsent>>

\* an event of the loop: frame idx is taken ("recv") or handled ("handle")
Event(ev, idx, branch, exc) == [ev |-> ev, idx |-> idx, branch |-> branch, exc |-> exc]

\* the async for yields message
receive(c, message) ==
    LET c1 == Transport(c, "recv")
        idx == Len(c.recvd) + 1
    IN Log([c1 EXCEPT !.recvd = Append(@, message),
                      !.events = Append(@, Event("recv", idx, "", ""))],
           Info("Received: "))

\* dispatch with the events of the frame in the wrong order: the handler
\* entered ahead of the frame being taken
dispatch_early(c, h) ==
    LET n == Len(c.events)
    IN [c EXCEPT !.events = SubSeq(@, 1, n - 1)
                            \o <<Event("handle", Len(c.recvd), h.branch, h.exc), @[n]>>,
                 !.logs = @ \o h.logs]

\* dispatch with a handler that remembers READY: once a frame has gone to the
\* READY branch, every later frame is handled as unknown
dispatch_after_ready(c, h) ==
    LET seen == \E k \in 1..Len(c.events) : c.events[k].branch = "READY"
    IN [c EXCEPT !.events = Append(@, Event("handle", Len(c.recvd),
                                           IF seen THEN "unknown" ELSE h.branch,
                                           h.exc)),
                 !.logs = @ \o h.logs]

\* await self.handle_message(data), for the frame taken last
dispatch(c, h) ==
    [c EXCEPT !.events = Append(@, Event("handle", Len(c.recvd), h.branch, h.exc)),
              !.logs = @ \o h.logs]

\* except json.JSONDecodeError
decode_error(c) ==
    Log(Log(c, Error("Failed to parse JSON: ")), Error("Raw message: "))

\* listen_error without the return: the loop goes on after the error
listen_error_continues(c) == Log(c, Error("Error while listening: "))

\* except Exception, around the loop
listen_error(c) == Return(Log(c, Error("Error while listening: ")), "None")

\* the body of the loop for one message: the call after it
loop_body(c, message) ==
    LET c1 == receive(c, message)
        data == Loads(message)
    IN IF data.exc = "JSONDecodeError" THEN decode_error(c1)
       ELSE LET c2 == dispatch(c1, handle_message(data.val))
            IN IF c2.events[Len(c2.events)].exc = "" THEN c2 ELSE listen_error(c2)

\* one iteration of the loop: the transport delivers its next frame
listen_message ==
    /\ pc = "listen"
    /\ inbox # <<>>
    /\ inbox' = Tail(inbox)
    /\ LET c == loop_body(call, Head(inbox))
       IN IF c.ret = "pending"
          THEN call' = c /\ pc' = "listen"
          ELSE call' = [c EXCEPT !.unread = Tail(inbox)] /\ pc' = "idle"
    /\ UNCHANGED <<websocket, conns, nsent>>

\* the frames end: the connection is closed gracefully, or was closed before
\* (the async for ends without an exception, and nothing is logged)
listen_exhausted ==
    /\ pc = "listen"
    /\ inbox = <<>>
    /\ call' = Return(Transport(call, "recv"), "None")
    /\ conns' = Closed(websocket)
    /\ pc' = "idle"
    /\ UNCHANGED <<websocket, inbox, nsent>>

\* except websockets.exceptions.ConnectionClosed
listen_ConnectionClosed ==
    /\ pc = "listen"
    /\ inbox = <<>>
    /\ call' = Return(Log(Transport(call, "recv"), Info("Connection closed by server")),
                      "None")
    /\ conns' = Closed(websocket)
    /\ pc' = "idle"
    /\ UNCHANGED <<websocket, inbox, nsent>>

\* except Exception: the transport raises another error
listen_Exception ==
    /\ pc = "listen"
    /\ inbox = <<>>
    /\ conns[websocket] = "open"
    /\ call' = listen_error(Transport(call, "recv"))
    /\ pc' = "idle"
    /\ UNCHANGED <<websocket, conns, inbox, nsent>>

(***************************************************************************)
(* send_command(command), send_activity_update(activity)                   *)
(***************************************************************************)
\* await self.websocket.send(message)
transmit(c, message) == [Transport(c, "send") EXCEPT !.tx = Append(@, message)]

\* await self.websocket.send(message) returned
sent(c, message) ==
    Log([transmit(c, message) EXCEPT !.out = Append(@, message)], Info("Sent: "))

\* send_failed with a second attempt
send_failed_retry(c, message) ==
    Log(transmit(transmit(c, message), message), Error("Failed to send command: "))

\* await self.websocket.send(message) raised
send_failed(c, message) ==
    Log(transmit(c, message), Error("Failed to send command: "))

\* c is the record of the call: of send_command, or of the method calling it.
\* The transport accepts the frame, or raises: it always raises on a closed
\* connection, and a connection it raises on is closed from then on.
send_command(command, c) ==
    /\ pc = "idle"
    /\ IF NotConnected(websocket)
       THEN /\ call' = not_connected(c)
            /\ UNCHANGED <<conns, inbox>>
       ELSE LET message == Dumps(command)
            IN \E accepted \in {b \in BOOLEAN : b => conns[websocket] = "open"} :
                 IF accepted
                 THEN /\ call' = Return(sent(c, message), "None")
                      /\ UNCHANGED <<conns, inbox>>
                 ELSE /\ call' = Return(send_failed(c, message), "None")
                      /\ conns' = Closed(websocket)
                      /\ inbox' = <<>>
    /\ UNCHANGED <<websocket, nsent, pc>>

\* activity_command with the activity wrapped in a list
activity_command_wrapped(activity) ==
    Dict(<< <<"cmd", Str("SET_ACTIVITY")>>,
            <<"args", Dict(<< <<"pid", Num(12345)>>, <<"activity", List(<<activity>>)>> >>)>>,
            <<"nonce", Str("activity-update")>> >>)

\* the command send_activity_update builds
activity_command(activity) ==
    Dict(<< <<"cmd", Str("SET_ACTIVITY")>>,
            <<"args", Dict(<< <<"pid", Num(12345)>>, <<"activity", activity>> >>)>>,
            <<"nonce", Str("activity-update")>> >>)

send_activity_update(activity) ==
    send_command(activity_command(activity),
                 [NewCall("send_activity_update") EXCEPT !.arg = activity])

(***************************************************************************)
(* close()                                                                 *)
(***************************************************************************)
\* self.websocket is not assigned: the handle stays.  The transport's close
\* of an open connection returns or raises; frames not yet delivered are lost.
close ==
    /\ pc = "idle"
    /\ IF ~NotConnected(websocket)
       THEN \E raises \in {b \in BOOLEAN : b => conns[websocket] = "open"} :
              /\ conns' = Closed(websocket)
              /\ inbox' = <<>>
              /\ call' = IF raises
                         THEN Return(Transport(NewCall("close"), "close"), "raise")
                         ELSE Return(Log(Transport(NewCall("close"), "close"),
                                         Info("Connection closed")), "None")
       ELSE /\ call' = Return(NewCall("close"), "None")
            /\ UNCHANGED <<conns, inbox>>
    /\ UNCHANGED <<websocket, nsent, pc>>

(***************************************************************************)
(* The service: it sends a text frame on the connection the session holds. *)
(***************************************************************************)
service_sends ==
    /\ ~NotConnected(websocket)
    /\ conns[websocket] = "open"
    /\ nsent < MaxFrames
    /\ nsent' = nsent + 1
    /\ \E message \in Frames : inbox' = Append(inbox, message)
    /\ UNCHANGED <<websocket, conns, pc, call>>

(***************************************************************************)
(* The specification: one caller, one call in flight at a time.            *)
(***************************************************************************)
Next ==
    /\ \/ connect
       \/ listen
       \/ listen_message
       \/ listen_exhausted
       \/ listen_ConnectionClosed
       \/ listen_Exception
       \/ \E command \in Commands : send_command(command, NewCall("send_command"))
       \/ \E activity \in Activities : send_activity_update(activity)
       \/ close
       \/ service_sends
    /\ UNCHANGED routine

Spec == Init /\ [][Next]_vars

(***************************************************************************)
(* SpecClassify: a connected session in listen(), with one frame of        *)
(* ManyFrames waiting on the connection; the loop takes and handles it.    *)
(***************************************************************************)
InitClassify ==
    /\ websocket = 1
    /\ conns = <<"open">>
    /\ inbox \in { <<message>> : message \in ManyFrames }
    /\ nsent = 1
    /\ pc = "listen"
    /\ call = [op |-> "listen", seq |-> 0, before |-> 1, arg |-> None,
               ret |-> "pending", tio |-> <<>>, tx |-> <<>>, out |-> <<>>,
               logs |-> <<>>, recvd |-> <<>>, events |-> <<>>, unread |-> <<>>]
    /\ routine = NewRoutine("")

NextClassify == listen_message /\ UNCHANGED routine

SpecClassify == InitClassify /\ [][NextClassify]_vars

(***************************************************************************)
(* main() and test_commands(): the demonstration routines.  Each makes one *)
(* client and drives it; the service sends frames as before.               *)
(***************************************************************************)
\* the routine r goes to the statement at
Goto(r, at) == [r EXCEPT !.at = at]

\* listen() is cancelled while it awaits a frame: asyncio.wait_for at its
\* timeout (test_commands), the interrupted event loop (main).
\* CancelledError is no Exception: no except clause of listen() catches it.
listen_cancelled ==
    /\ pc = "listen"
    /\ call' = Return(call, "cancelled")
    /\ pc' = "idle"
    /\ UNCHANGED <<websocket, conns, inbox, nsent>>

\* if not await client.connect(): return
routine_connect ==
    /\ routine.at = "connect"
    /\ connect
    /\ routine' = IF call'.ret = "True"
                  THEN [routine EXCEPT !.connected = TRUE,
                                       !.at = IF routine.name = "main"
                                              THEN "listen" ELSE "wait_ready"]
                  ELSE Goto(routine, "done")

\* test_commands_except with a return in the handler, ahead of the close
test_commands_except_returns(r) == Goto(r, "done")

\* test_commands: except Exception, then the finally clause
test_commands_except(r) == Goto(r, "finally")

\* test_commands, its own loop over client.websocket: one frame is taken
\* and decoded; READY breaks out of the loop, a frame that is no JSON or no
\* object raises
wait_ready_message ==
    /\ routine.at = "wait_ready"
    /\ inbox # <<>>
    /\ inbox' = Tail(inbox)
    /\ LET data == Loads(Head(inbox))
           evt == DictGet(data.val, "evt")
           r == [routine EXCEPT !.direct = @ + 1]
       IN routine' = IF data.exc # "" \/ evt.exc # "" THEN test_commands_except(r)
                     ELSE IF evt.val = Str("READY")
                          THEN [Goto(r, "GET_GUILDS") EXCEPT !.ready = TRUE]
                          ELSE r
    /\ UNCHANGED <<websocket, conns, nsent, pc, call>>

\* test_commands, its own loop: the frames end with a graceful closure, the
\* loop ends without a break and the routine goes on to its commands
wait_ready_exhausted ==
    /\ routine.at = "wait_ready"
    /\ inbox = <<>>
    /\ conns' = Closed(websocket)
    /\ routine' = Goto(routine, "GET_GUILDS")
    /\ UNCHANGED <<websocket, inbox, nsent, pc, call>>

\* test_commands, its own loop: the transport raises (the connection closed
\* with an error, or another failure)
wait_ready_raises ==
    /\ routine.at = "wait_ready"
    /\ inbox = <<>>
    /\ conns[websocket] = "open"
    /\ \E closed \in BOOLEAN : conns' = IF closed THEN Closed(websocket) ELSE conns
    /\ routine' = test_commands_except(routine)
    /\ UNCHANGED <<websocket, inbox, nsent, pc, call>>

\* test_commands: the three commands, one after the other
test_commands_send ==
    \/ /\ routine.at = "GET_GUILDS"
       /\ send_command(GetGuilds, NewCall("send_command"))
       /\ routine' = Goto(routine, "GET_CHANNELS")
    \/ /\ routine.at = "GET_CHANNELS"
       /\ send_command(GetChannels, NewCall("send_command"))
       /\ routine' = Goto(routine, "SET_ACTIVITY")
    \/ /\ routine.at = "SET_ACTIVITY"
       /\ send_activity_update(ActivityDemo)
       /\ routine' = Goto(routine, "listen")

\* await client.listen(), alone in main and under asyncio.wait_for in
\* test_commands: the call
routine_listen ==
    /\ routine.at = "listen"
    /\ listen
    /\ routine' = Goto(routine, "listening")

\* listen() runs; when it returns the routine goes to its finally clause
routine_listening ==
    /\ routine.at = "listening"
    /\ \/ listen_message
       \/ listen_exhausted
       \/ listen_ConnectionClosed
       \/ listen_Exception
    /\ routine' = IF pc' = "idle" THEN Goto(routine, "finally") ELSE routine

\* the timeout of asyncio.wait_for (except asyncio.TimeoutError), the
\* interrupt of main: listen() is cancelled, then the finally clause
routine_timeout ==
    /\ routine.at = "listening"
    /\ listen_cancelled
    /\ routine' = [Goto(routine, "finally") EXCEPT !.timedout = TRUE]

\* finally: await client.close()
routine_close ==
    /\ routine.at = "finally"
    /\ close
    /\ routine' = [Goto(routine, "done") EXCEPT !.closes = @ + 1]

InitDemo ==
    /\ websocket = 0
    /\ conns = <<>>
    /\ inbox = <<>>
    /\ nsent = 0
    /\ pc = "idle"
    /\ call = [op |-> "__init__", seq |-> 0, before |-> 0, arg |-> None,
               ret |-> "None", tio |-> <<>>, tx |-> <<>>, out |-> <<>>,
               logs |-> <<>>, recvd |-> <<>>, events |-> <<>>, unread |-> <<>>]
    /\ routine \in {NewRoutine("main"), NewRoutine("test_commands")}

NextDemo ==
    \/ routine_connect
    \/ wait_ready_message
    \/ wait_ready_exhausted
    \/ wait_ready_raises
    \/ test_commands_send
    \/ routine_listen
    \/ routine_listening
    \/ routine_timeout
    \/ routine_close
    \/ service_sends /\ UNCHANGED routine

SpecDemo == InitDemo /\ [][NextDemo]_vars

(***************************************************************************)
(* The claims.                                                             *)
(***************************************************************************)
\* the step is a call of the method op
Calls(op) == pc = "idle" /\ call'.seq # call.seq /\ call'.op = op

\* the call c took the not-connected path: the usage error, nothing else
UsageErrorOnly(c) ==
    /\ c.ret = "None"
    /\ c.logs = <<Error("Not connected. Call connect() first.")>>
    /\ c.tio = <<>> /\ c.tx = <<>> /\ c.out = <<>>
    /\ c.recvd = <<>> /\ c.events = <<>>

\* message is text json.loads rejects
Malformed(message) == Loads(message).exc # ""

\* the handle_message events of the call c for frame i
Handled(c, i) == {k \in 1..Len(c.events) : c.events[k].ev = "handle" /\ c.events[k].idx = i}

\* how many times line is in logs
Count(logs, line) == Cardinality({k \in 1..Len(logs) : logs[k] = line})

\* C1: a second close() right after a close() on a Session that holds a
\* handle raises no error and requests no transport close.
C1_SecondCloseNoShutdown ==
    [][(call.op = "close" /\ call.before # 0 /\ Calls("close"))
        => (call'.ret # "raise" /\ call'.tio = <<>>)]_vars

\* C2: the handle is absent while no connect() has succeeded and once
\* close() has returned, and a send_command() or listen() that follows a
\* close() takes the not-connected path without transport I/O.
C2_HandleAbsent ==
    [][/\ (conns' = <<>> => websocket' = 0)
       /\ (call'.op = "close" /\ call'.ret # "pending" => websocket' = 0)
       /\ (call.op = "close" /\ (Calls("send_command") \/ Calls("listen"))
            => UsageErrorOnly(call'))]_vars

\* C3: send_command() or listen() on a Session without a handle reports the
\* usage error, returns at once, does no transport I/O and leaves the
\* Session as it was.
C3_UsageError ==
    [][(websocket = 0 /\ (Calls("send_command") \/ Calls("listen")
                          \/ Calls("send_activity_update")))
        => (/\ UsageErrorOnly(call')
            /\ pc' = "idle"
            /\ UNCHANGED <<websocket, conns, inbox, nsent>>)]_vars

C3_Witness ==
    /\ call.op = "listen" /\ call.before = 0
    /\ UsageErrorOnly(call) /\ pc = "idle"

\* C4: for every malformed frame listen() has taken, a decode error is
\* reported, the frame is not dispatched, no exception escapes, and every
\* well-formed frame after it is dispatched: those taken later have their
\* handle_message call and none is left undelivered when listen() returns.
C4_MalformedSkipped ==
    call.op = "listen" =>
      /\ call.ret # "raise"
      /\ Count(call.logs, Error("Failed to parse JSON: "))
           = Cardinality({i \in 1..Len(call.recvd) : Malformed(call.recvd[i])})
      /\ \A i \in 1..Len(call.recvd) :
           Malformed(call.recvd[i]) =>
             /\ Handled(call, i) = {}
             /\ \A j \in (i + 1)..Len(call.recvd) :
                  ~Malformed(call.recvd[j]) => Handled(call, j) # {}
             /\ \A j \in 1..Len(call.unread) : Malformed(call.unread[j])

\* C5 as stated: after a failed connect(), which returns False and stores
\* no handle, a send_command() reports the usage error without I/O.
C5_FailedConnectThenSend ==
    [][(call.op = "connect" /\ Error("Failed to connect: ") \in {call.logs[k] : k \in 1..Len(call.logs)})
        => (/\ call.ret = "False"
            /\ websocket = call.before
            /\ (Calls("send_command") => UsageErrorOnly(call')))]_vars

\* C5 amended: a failed connect() returns False and leaves the handle as it
\* was; when the Session held no handle before it, a send_command() that
\* follows reports the usage error without I/O.
C5_FailedConnectKeepsHandle ==
    [][(call.op = "connect" /\ Error("Failed to connect: ") \in {call.logs[k] : k \in 1..Len(call.logs)})
        => (/\ call.ret = "False"
            /\ websocket = call.before
            /\ (call.before = 0 /\ Calls("send_command") => UsageErrorOnly(call')))]_vars

C5_Witness ==
    /\ call.op = "connect" /\ call.ret = "False" /\ call.before = 0
    /\ websocket = 0
    /\ ENABLED (/\ send_command(GetGuilds, NewCall("send_command"))
                /\ UsageErrorOnly(call'))

\* C6: listen() takes the frames one at a time and dispatches them in the
\* order taken: each handle_message call is for the frame taken last and is
\* over before the next frame is taken, and every well-formed frame taken
\* is dispatched once.
C6_DispatchInOrder ==
    call.op = "listen" =>
      LET ev == call.events
          n == Len(call.recvd)
      IN /\ \A j, k \in 1..Len(ev) : j < k => ev[j].idx <= ev[k].idx
         /\ \A i \in 1..n :
              /\ Cardinality({k \in 1..Len(ev) : ev[k].ev = "recv" /\ ev[k].idx = i}) = 1
              /\ Cardinality(Handled(call, i)) = IF Malformed(call.recvd[i]) THEN 0 ELSE 1
         /\ \A k \in 1..Len(ev) :
              /\ ev[k].idx \in 1..n
              /\ ev[k].ev = "handle" =>
                   /\ k > 1
                   /\ ev[k - 1] = Event("recv", ev[k].idx, "", "")
                   /\ ev[k].branch = handle_message(Loads(call.recvd[ev[k].idx]).val).branch

C6_Witness ==
    /\ call.op = "listen"
    /\ call.recvd = <<ReadyAlice, DispatchX, Nonce>>
    /\ [k \in 1..Len(call.events) |-> <<call.events[k].ev, call.events[k].idx>>]
         = << <<"recv", 1>>, <<"handle", 1>>, <<"recv", 2>>, <<"handle", 2>>,
              <<"recv", 3>>, <<"handle", 3>> >>

\* C7: an envelope with evt = "READY" is handled by the READY branch,
\* whatever its cmd.
C7_ReadyFirst ==
    \A k \in 1..Len(call.events) :
      LET e == call.events[k]
          env == Loads(call.recvd[e.idx]).val
      IN (e.ev = "handle" /\ env.t = "dict" /\ HasKey(env, "evt")
          /\ Lookup(env, "evt") = Str("READY"))
         => e.branch = "READY"

C7_Witness ==
    \E k \in 1..Len(call.events) :
      LET e == call.events[k]
          env == Loads(call.recvd[e.idx]).val
      IN /\ e.ev = "handle" /\ e.branch = "READY"
         /\ env.t = "dict" /\ HasKey(env, "cmd")
         /\ Lookup(env, "cmd") = Str("DISPATCH")

\* C8: send_activity_update(activity) on a Session with a handle hands the
\* transport exactly one frame, which decodes to cmd "SET_ACTIVITY",
\* args.activity the activity passed, args.pid an integer and nonce
\* "activity-update"; the transport receives that frame and no other,
\* unless it fails the send.
C8_ActivityFrame ==
    (call.op = "send_activity_update" /\ call.before # 0) =>
      /\ Len(call.tx) = 1
      /\ LET d == Loads(call.tx[1])
         IN /\ d.exc = "" /\ d.val.t = "dict"
            /\ [k \in 1..Len(d.val.kv) |-> d.val.kv[k][1]] = <<"cmd", "args", "nonce">>
            /\ Lookup(d.val, "cmd") = Str("SET_ACTIVITY")
            /\ Lookup(d.val, "nonce") = Str("activity-update")
            /\ Lookup(d.val, "args").t = "dict"
            /\ Lookup(Lookup(d.val, "args"), "activity") = call.arg
            /\ Lookup(Lookup(d.val, "args"), "pid").t = "int"
      /\ IF Error("Failed to send command: ") \in {call.logs[k] : k \in 1..Len(call.logs)}
         THEN call.out = <<>>
         ELSE call.out = call.tx

C8_Witness ==
    /\ call.op = "send_activity_update" /\ call.arg = ActivityTesting
    /\ Len(call.out) = 1
    /\ Lookup(Lookup(Lookup(Loads(call.out[1]).val, "args"), "activity"), "details")
         = Str("Testing")

\* C9: a call of send_command() makes at most one transmission attempt;
\* when the transport fails it, the error is logged, nothing is retried,
\* the call returns without raising and the handle is as it was.
C9_AtMostOnce ==
    call.op \in {"send_command", "send_activity_update"} =>
      /\ Len(call.tio) <= 1 /\ Len(call.tx) <= 1
      /\ call.ret = "None"
      /\ websocket = call.before
      /\ (call.tx # <<>> /\ call.out = <<>>)
           => call.logs = <<Error("Failed to send command: ")>>

C9_Witness ==
    /\ call.op = "send_command" /\ call.before # 0
    /\ call.tx = <<Dumps(GetGuilds)>> /\ call.out = <<>>
    /\ call.ret = "None"

\* C10: no call of connect, listen, send_command or close raises, whatever
\* the transport does, and the handle is absent or one of the connections.
C10_NoRaise ==
    /\ call.ret # "raise"
    /\ websocket \in 0..Len(conns)

(***************************************************************************)
(* C11..C19                                                                *)
(***************************************************************************)
\* the transport ends the loop of listen() in this step: it is asked for a
\* frame and yields none (graceful closure, an error, or no frame left)
TransportEndsLoop ==
    /\ pc = "listen"
    /\ Len(call'.tio) = Len(call.tio) + 1
    /\ call'.recvd = call.recvd

\* C11: when the transport signals graceful closure, raises an error or has
\* no frame left, listen() returns, and returns normally (None, no
\* exception); once it has returned it dispatches no further frame, whatever
\* the service sends afterwards.
C11_ListenReturns ==
    [][/\ TransportEndsLoop =>
            /\ pc' = "idle"
            /\ call'.ret = "None"
            /\ call'.events = call.events
       /\ (call.op = "listen" /\ pc = "idle" /\ call'.seq = call.seq) =>
            /\ call' = call
            /\ pc' = "idle"]_vars

\* listen() has returned on a transport error after a frame was dispatched,
\* and a frame has arrived since
C11_Witness ==
    /\ call.op = "listen"
    /\ pc = "idle"
    /\ call.ret = "None"
    /\ Len(call.recvd) >= 1
    /\ Len(call.tio) = Len(call.recvd) + 1
    /\ call.logs[Len(call.logs)] = Error("Error while listening: ")
    /\ inbox # <<>>

\* C12: the session never has a connection that it opened, has not closed
\* and no longer refers to: every open connection of the transport is the
\* one self.websocket holds.
C12_OneLiveConnection ==
    \A i \in 1..Len(conns) : conns[i] = "open" => websocket = i

\* the loop of listen() dispatches a frame in this step and handle_message
\* raises
DispatchFails ==
    /\ pc = "listen"
    /\ Len(call'.events) > Len(call.events)
    /\ call'.events[Len(call'.events)].ev = "handle"
    /\ call'.events[Len(call'.events)].exc # ""

\* C13: a frame that decodes but whose dispatch fails does not end listen():
\* the call goes on waiting for the next frame, and leaves no delivered frame
\* unread.
C13_DispatchFailureIsolated ==
    [][DispatchFails =>
         /\ pc' = "listen"
         /\ call'.ret = "pending"
         /\ call'.unread = <<>>]_vars

\* the envelope env has neither evt "READY" nor cmd "DISPATCH"
Unknown(env) ==
    /\ env.t = "dict"
    /\ ~(HasKey(env, "evt") /\ Lookup(env, "evt") = Str("READY"))
    /\ ~(HasKey(env, "cmd") /\ Lookup(env, "cmd") = Str("DISPATCH"))

\* C14: an envelope whose evt is not "READY" and whose cmd is not "DISPATCH"
\* (cmd and evt may both be absent) is handled as unknown: no error is
\* raised and listen() goes on, only the line for an unknown message is
\* logged, nothing is sent on the transport, and the handle and the
\* connection are as they were.
C14_UnknownHarmless ==
    \A k \in 1..Len(call.events) :
      LET e == call.events[k]
      IN (e.ev = "handle" /\ Unknown(Loads(call.recvd[e.idx]).val))
         => /\ e.branch = "unknown"
            /\ e.exc = ""
            /\ call.ret = "pending" /\ pc = "listen"
            /\ call.logs = <<Info("Received: "),
                             Info("Unknown message type - CMD: , EVT: ")>>
            /\ call.tx = <<>> /\ call.out = <<>>
            /\ call.tio = <<"recv">>
            /\ websocket = 1 /\ conns = <<"open">>

\* an envelope with neither cmd nor evt has been handled
C14_Witness ==
    \E k \in 1..Len(call.events) :
      LET e == call.events[k]
          env == Loads(call.recvd[e.idx]).val
      IN /\ e.ev = "handle" /\ e.branch = "unknown"
         /\ env.t = "dict"
         /\ ~HasKey(env, "cmd") /\ ~HasKey(env, "evt")

\* the handling of frame e.idx of the call c, if e is the event of one
Envelope(c, e) == Loads(c.recvd[e.idx]).val

\* C17: the branch handle_message takes depends on the envelope only: two
\* frames of one listen() that decode to the same envelope are handled in
\* the same branch with the same outcome, whatever was handled between and
\* before them; and the step that handles a frame leaves the handle (and the
\* connection behind it) unchanged.
C17_EnvelopeOnly ==
    [][/\ \A j, k \in 1..Len(call'.events) :
            LET a == call'.events[j]
                b == call'.events[k]
            IN (a.ev = "handle" /\ b.ev = "handle"
                /\ Envelope(call', a) = Envelope(call', b))
               => (a.branch = b.branch /\ a.exc = b.exc)
       /\ (pc = "listen" /\ Len(call'.events) > Len(call.events))
            => UNCHANGED <<websocket, conns, nsent>>]_vars

\* the same DISPATCH envelope has been handled before and after a READY
C17_Witness ==
    /\ call.op = "listen"
    /\ call.recvd = <<DispatchX, ReadyAlice, DispatchX>>
    /\ Len(call.events) = 6
    /\ call.events[2].branch = "DISPATCH"
    /\ call.events[4].branch = "READY"
    /\ call.events[6].branch = "DISPATCH"

\* C15: when listen() has been cancelled at the deadline of test_commands
\* while it awaited a frame, the session still holds its handle, and the
\* close() that follows asks the transport to shut down exactly once and
\* raises nothing.
C15_CloseAfterCancel ==
    (routine.name = "test_commands" /\ routine.timedout) =>
        /\ ~NotConnected(websocket)
        /\ routine.at = "done" =>
              /\ call.op = "close"
              /\ call.tio = <<"close">>
              /\ call.ret = "None"

\* C16: the loop of listen() is the only reader of the session's transport:
\* no frame is taken from it outside listen(), and no other loop reads it
\* while listen() does.
C16_ListenOnlyReader ==
    /\ routine.direct = 0
    /\ ~(routine.at = "wait_ready" /\ pc = "listen")

\* C18: in test_commands a command is handed to the transport only after a
\* READY frame has been received on the connection; when the frames end
\* without one, no command is sent.
C18_SendsAfterReady ==
    (/\ routine.name = "test_commands"
     /\ call.op \in {"send_command", "send_activity_update"}
     /\ call.tx # <<>>)
    => routine.ready

\* C19: main and test_commands.  When connect() fails the routine ends at
\* once: the connect is the only call made and the only transport I/O.  When
\* connect() succeeds the routine calls close() exactly once, as its last
\* act: it has not ended before the close, and does nothing after it,
\* whichever way its loop, its commands and its listen() ended; and once its
\* finally clause is reached nothing stands in the way of the close.
C19_CloseOnce ==
    /\ routine.closes <= 1
    /\ routine.at = "finally" => ENABLED routine_close
    /\ routine.closes = 1 =>
          /\ routine.at = "done"
          /\ call.op = "close"
          /\ call.tio = <<"close">>
    /\ routine.at = "done" =>
          IF routine.connected
          THEN routine.closes = 1
          ELSE /\ routine.closes = 0
               /\ routine.direct = 0
               /\ call.op = "connect"
               /\ call.ret = "False"
               /\ call.tio = <<"connect">>
               /\ conns = <<>>

\* test_commands has ended through its timeout, having closed once
C19_Witness ==
    /\ routine.name = "test_commands"
    /\ routine.at = "done"
    /\ routine.timedout
    /\ routine.closes = 1
    /\ call.op = "close"

=============================================================================
